---- MODULE Spec2Model ----
(***************************************************************************)
(* Model of src/main.py: the FastAPI application with the /run endpoint    *)
(* (LLM classification of a task description followed by a dispatch to a  *)
(* fixed handler) and the /read endpoint (read back a file joined under   *)
(* /data).  Both endpoints are coroutines of one event loop.               *)
(*                                                                         *)
(* Strings are sequences of one-character strings, paths are records of   *)
(* an absolute flag and a sequence of segments.                            *)
(***************************************************************************)
EXTENDS Integers, Sequences, FiniteSets, TLC

\* ---------------------------------------------------------------- bounds
\* number of requests submitted to the server
MaxReq == 2
\* longest run of whitespace the LLM puts around its reply
MaxPad == 1
\* longest caller-supplied path of /read, in segments
MaxSegs == 2

Req == 1..MaxReq

\* ------------------------------------------------------- str.strip/lower
Whitespace == {" ", "\t", "\n", "\r"}

UpperChars == <<"A","B","C","D","E","F","G","H","I","J","K","L","M",
                "N","O","P","Q","R","S","T","U","V","W","X","Y","Z">>
LowerChars == <<"a","b","c","d","e","f","g","h","i","j","k","l","m",
                "n","o","p","q","r","s","t","u","v","w","x","y","z">>

LowerChar(c) ==
    IF \E i \in 1..26 : UpperChars[i] = c
    THEN LowerChars[CHOOSE i \in 1..26 : UpperChars[i] = c]
    ELSE c

\* str.lower()
Lower(s) == [i \in 1..Len(s) |-> LowerChar(s[i])]

RECURSIVE LStrip(_)
LStrip(s) ==
    IF s # <<>> /\ Head(s) \in Whitespace THEN LStrip(Tail(s)) ELSE s

RECURSIVE RStrip(_)
RStrip(s) ==
    IF s # <<>> /\ s[Len(s)] \in Whitespace
    THEN RStrip(SubSeq(s, 1, Len(s) - 1))
    ELSE s

\* str.strip()
Strip(s) == RStrip(LStrip(s))

\* query_llm returns response.choices[0].message.content.strip()
query_llm(content) == Strip(content)

\* parse_task_description: task_key = response.strip().lower()
\* (variant without the .lower())
parse_task_description_nolower(content) == Strip(query_llm(content))
parse_task_description(content) == Lower(Strip(query_llm(content)))

\* ------------------------------------------------------------- handlers
\* A handler is described by the number of positional parameters it
\* requires, by what it blocks on, and by the file it writes through
\* write_output_file (relative to /data; <<>> if it writes none).
\*   kind "child"    : subprocess.run, raises on a non-zero return code
\*   kind "io"       : reads its input (file, database, image), raises on
\*                     an error, then writes its output
\*   kind "io_llm"   : reads its input, calls query_llm, writes the reply
\*   kind "const"    : returns its message
\*   kind "http"     : requests.get(url), writes the page text
run_a1 == [name |-> "run_a1", arity |-> 0, kind |-> "child", out |-> <<>>]
run_a2 == [name |-> "run_a2", arity |-> 0, kind |-> "child", out |-> <<>>]
run_a3 == [name |-> "run_a3", arity |-> 0, kind |-> "io", out |-> <<"dates-wednesdays.txt">>]
run_a4 == [name |-> "run_a4", arity |-> 0, kind |-> "io", out |-> <<"contacts-sorted.json">>]
run_a5 == [name |-> "run_a5", arity |-> 0, kind |-> "io", out |-> <<"logs-recent.txt">>]
run_a6 == [name |-> "run_a6", arity |-> 0, kind |-> "io", out |-> <<"docs", "index.json">>]
run_a7 == [name |-> "run_a7", arity |-> 0, kind |-> "io_llm", out |-> <<"email-sender.txt">>]
run_a8 == [name |-> "run_a8", arity |-> 0, kind |-> "io_llm", out |-> <<"credit-card.txt">>]
run_a9 == [name |-> "run_a9", arity |-> 0, kind |-> "io_llm", out |-> <<"comments-similar.txt">>]
run_a10 == [name |-> "run_a10", arity |-> 0, kind |-> "io", out |-> <<"ticket-sales-gold.txt">>]
run_b5 == [name |-> "run_b5", arity |-> 0, kind |-> "io", out |-> <<"sample-row-count.txt">>]
run_b6 == [name |-> "run_b6", arity |-> 1, kind |-> "http", out |-> <<"webdata.txt">>]
run_b7 == [name |-> "run_b7", arity |-> 0, kind |-> "io", out |-> <<"credit-card-resized.png">>]
run_b8 == [name |-> "run_b8", arity |-> 0, kind |-> "const", out |-> <<>>]
run_b9 == [name |-> "run_b9", arity |-> 0, kind |-> "io", out |-> <<"format.html">>]
run_b10 == [name |-> "run_b10", arity |-> 0, kind |-> "io", out |-> <<"filtered-sample.json">>]

TASK_MAP ==
    (<<"a","1">> :> run_a1) @@ (<<"a","2">> :> run_a2) @@
    (<<"a","3">> :> run_a3) @@ (<<"a","4">> :> run_a4) @@
    (<<"a","5">> :> run_a5) @@ (<<"a","6">> :> run_a6) @@
    (<<"a","7">> :> run_a7) @@ (<<"a","8">> :> run_a8) @@
    (<<"a","9">> :> run_a9) @@ (<<"a","1","0">> :> run_a10) @@
    (<<"b","5">> :> run_b5) @@ (<<"b","6">> :> run_b6) @@
    (<<"b","7">> :> run_b7) @@ (<<"b","8">> :> run_b8) @@
    (<<"b","9">> :> run_b9) @@ (<<"b","1","0">> :> run_b10)

\* the sentinel the prompt asks the LLM for when no catalog entry matches
Unknown == <<"u","n","k","n","o","w","n">>


TaskKeys == DOMAIN TASK_MAP

\* ------------------------------------------------------- the LLM's reply
PadChars == {" "}

RECURSIVE SeqsUpTo(_, _)
SeqsUpTo(S, n) ==
    IF n = 0 THEN {<<>>}
    ELSE LET shorter == SeqsUpTo(S, n - 1)
         IN  shorter \cup {Append(q, x) : q \in shorter, x \in S}

Pads == SeqsUpTo(PadChars, MaxPad)

\* what the completion endpoint may answer before any normalisation: a
\* key in upper case, the sentinel, a key followed by a newline, and texts
\* that are neither a key nor the sentinel (a key that is not in the table,
\* a key with an inner blank, a quoted key, the empty text)
ReplyCores ==
    { <<"A","3">>, <<"B","1","0">>, <<"B","6">>, <<"a","1","\n">>,
      Unknown, <<"U","n","k","n","o","w","n">>,
      <<"a","1","1">>, <<"a"," ","3">>, <<"\"","a","3","\"">>, <<>> }

\* every catalog key as it is, and the texts above with blanks around them
LLMReplies ==
    TaskKeys \cup { pre \o core \o post : pre \in Pads, core \in ReplyCores, post \in Pads }

\* ------------------------------------------------------ paths and files
\* A path is [abs, segs]; a node of the file system is the sequence of
\* segments from the root.
Segments == {"..", "data", "etc", "passwd", "f", "bin"}

CallerPaths == [abs : BOOLEAN, segs : SeqsUpTo(Segments, MaxSegs)]

DataRoot == [abs |-> TRUE, segs |-> <<"data">>]

\* os.path.join("/data", p): an absolute second component discards the first
os_path_join(root, p) ==
    IF p.abs THEN p ELSE [abs |-> TRUE, segs |-> root.segs \o p.segs]

NoNode == <<"ENOENT">>

Parent(node) == IF node = <<>> THEN <<>> ELSE SubSeq(node, 1, Len(node) - 1)

\* path resolution by the operating system: every intermediate component
\* must be an existing directory, ".." steps to the parent
RECURSIVE Walk(_, _, _)
Walk(files, cur, rest) ==
    IF cur \notin DOMAIN files THEN NoNode
    ELSE IF rest = <<>> THEN cur
    ELSE IF files[cur] # "dir" THEN NoNode
    ELSE IF Head(rest) = ".." THEN Walk(files, Parent(cur), Tail(rest))
    ELSE Walk(files, Append(cur, Head(rest)), Tail(rest))

Resolve(files, p) == Walk(files, <<>>, p.segs)

\* os.path.exists
os_path_exists(files, p) == Resolve(files, p) # NoNode

UnderData(node) == node # NoNode /\ Len(node) >= 1 /\ node[1] = "data"

\* open(path, "w"): the node that is created or truncated, NoNode if the
\* parent is not an existing directory or the target is a directory
WriteTarget(files, p) ==
    IF p.segs = <<>> THEN NoNode
    ELSE LET dir  == Walk(files, <<>>, SubSeq(p.segs, 1, Len(p.segs) - 1))
             name == p.segs[Len(p.segs)]
         IN  IF dir = NoNode \/ files[dir] # "dir" \/ name = ".." THEN NoNode
             ELSE IF Append(dir, name) \in DOMAIN files /\ files[Append(dir, name)] = "dir"
                  THEN NoNode
                  ELSE Append(dir, name)

\* write_output_file(filepath, content)
write_output_file(files, filepath) ==
    LET target == WriteTarget(files, os_path_join(DataRoot, [abs |-> FALSE, segs |-> filepath]))
    IN  IF target = NoNode THEN files
        ELSE (target :> "text") @@ files

\* ---------------------------------------------------------------- state
VARIABLES
    pc,       \* per request: "idle", "queued_run" (POST /run received),
              \*              "queued_read" (GET /read received), "classify",
              \*              "parsed", "handler", "handler_llm", "done"
    loc,      \* per request: the locals of its run_task coroutine and the
              \*              record of what it has done so far
    running,  \* the request whose coroutine holds the event-loop thread, 0 if none
    fs,       \* the file system: node -> "dir" | "text" | "binary"
    last      \* the response of the request that completed last, until
              \* the event loop starts the next /run coroutine

vars == <<pc, loc, running, fs, last>>

NoLocals ==
    [ reply       |-> <<>>,    \* the text the completion endpoint answered
      task_key    |-> <<>>,    \* the key returned by parse_task_description
      returned    |-> FALSE,   \* parse_task_description has returned
      llm_calls   |-> 0,       \* calls of query_llm made by the classifier
      invoked     |-> 0,       \* evaluations of TASK_MAP[task_key]()
      handler_llm |-> 0,       \* calls of query_llm made by the handler
      errs        |-> <<>>,    \* exceptions raised, in order
      rc          |-> -1,      \* return code of the child process, -1 if none
      stdout      |-> "none",  \* what the child process printed
      wrote       |-> {} ]     \* nodes written by the request

NoResponse ==
    [ op |-> "none", status |-> 0, detail |-> "", opened |-> NoNode, t |-> NoLocals ]

\* what a child process may print: an object with status and result, an
\* object of another shape, or nothing
ChildOutputs == {"valid_success", "valid_failure", "invalid", "empty"}

InitFiles ==
    (<<>> :> "dir") @@ (<<"data">> :> "dir") @@ (<<"etc">> :> "dir") @@
    (<<"etc", "passwd">> :> "text") @@
    (<<"data", "f">> :> "text") @@ (<<"data", "bin">> :> "binary")

Init ==
    /\ pc = [r \in Req |-> "idle"]
    /\ loc = [r \in Req |-> NoLocals]
    /\ running = 0
    /\ \E docs \in BOOLEAN :
          fs = IF docs THEN (<<"data", "docs">> :> "dir") @@ InitFiles ELSE InitFiles
    /\ last = NoResponse

\* the coroutine of request r returns or raises: the response is sent, its
\* locals are gone, the event loop takes the next coroutine
Complete(r, op, l, status, detail, opened) ==
    /\ pc' = [pc EXCEPT ![r] = "done"]
    /\ loc' = [loc EXCEPT ![r] = NoLocals]
    /\ running' = 0
    /\ last' = [ op |-> op, status |-> status, detail |-> detail,
                 opened |-> opened, t |-> l ]

\* ------------------------------------------------------------- requests
\* a client sends POST /run or GET /read; requests are numbered in the
\* order of their arrival
Submit(r, k) ==
    /\ pc[r] = "idle"
    /\ \A q \in Req : q < r => pc[q] # "idle"
    /\ pc' = [pc EXCEPT ![r] = k]
    /\ UNCHANGED <<loc, running, fs, last>>

\* run_task starts on the event loop and runs, without an await, into the
\* synchronous client.chat.completions.create of parse_task_description
run_task(r) ==
    /\ pc[r] = "queued_run"
    /\ running = 0
    /\ running' = r
    /\ pc' = [pc EXCEPT ![r] = "classify"]
    /\ loc' = [loc EXCEPT ![r].llm_calls = @ + 1]
    /\ last' = NoResponse
    /\ UNCHANGED fs

\* the completion call raises: the exception leaves run_task (the call is
\* outside the try) and the framework answers 500
\* (variant: the completion call is retried up to 3 times)
ClassifyFail_retry(r) ==
    /\ pc[r] = "classify"
    /\ IF loc[r].llm_calls < 3
       THEN /\ loc' = [loc EXCEPT ![r].llm_calls = @ + 1]
            /\ UNCHANGED <<pc, running, last>>
       ELSE Complete(r, "run", [loc[r] EXCEPT !.errs = Append(@, "upstream")],
                     500, "Internal Server Error", NoNode)
    /\ UNCHANGED fs
ClassifyFail(r) ==
    /\ pc[r] = "classify"
    /\ Complete(r, "run", [loc[r] EXCEPT !.errs = Append(@, "upstream")],
                500, "Internal Server Error", NoNode)
    /\ UNCHANGED fs

\* the except clause of run_task: HTTPException(500, str(e))
\* (variant: the handler is called again, up to 3 times)
HandlerRaise_retry(r, l, e) ==
    IF l.invoked < 3
    THEN /\ pc' = [pc EXCEPT ![r] = "handler"]
         /\ loc' = [loc EXCEPT ![r] = [l EXCEPT !.errs = Append(@, e), !.invoked = @ + 1]]
         /\ UNCHANGED <<running, last>>
    ELSE Complete(r, "run", [l EXCEPT !.errs = Append(@, e)], 500, e, NoNode)
HandlerRaise(r, l, e) ==
    Complete(r, "run", [l EXCEPT !.errs = Append(@, e)], 500, e, NoNode)

\* the return of run_task: {"status": "success", "message": ...}
HandlerReturn(r, l) ==
    Complete(r, "run", l, 200, "success", NoNode)

\* task_key not in TASK_MAP
\* (variant without the membership test)
KeyUnknown_never(task_key) == FALSE
KeyUnknown(task_key) == task_key \notin DOMAIN TASK_MAP

\* the completion call returns: parse_task_description computes the key
\* from the reply and returns it
ClassifyReturn(r, content) ==
    /\ pc[r] = "classify"
    /\ pc' = [pc EXCEPT ![r] = "parsed"]
    /\ loc' = [loc EXCEPT ![r].reply = content,
                          ![r].task_key = parse_task_description(content),
                          ![r].returned = TRUE]
    /\ UNCHANGED <<running, fs, last>>

\* run_task looks the key up and calls the handler with no argument; the
\* reply was a local of parse_task_description
Dispatch(r) ==
    /\ pc[r] = "parsed"
    /\ LET task_key == loc[r].task_key
           l == [loc[r] EXCEPT !.reply = <<>>]
       IN  IF KeyUnknown(task_key)
           THEN Complete(r, "run", l, 400, "Unknown or unmapped task identifier", NoNode)
           ELSE IF task_key \notin DOMAIN TASK_MAP
           THEN HandlerRaise(r, [l EXCEPT !.invoked = @ + 1], "KeyError")
           ELSE IF TASK_MAP[task_key].arity # 0
           THEN HandlerRaise(r, [l EXCEPT !.invoked = @ + 1], "TypeError")
           ELSE /\ pc' = [pc EXCEPT ![r] = "handler"]
                /\ loc' = [loc EXCEPT ![r] = [l EXCEPT !.invoked = @ + 1]]
                /\ UNCHANGED <<running, last>>
    /\ UNCHANGED fs

\* ------------------------------------------------------- handler bodies
Handler(r) == TASK_MAP[loc[r].task_key]

\* return codes of a child process: normal exit, error exit, killed
ReturnCodes == {0, 1, -9}

\* run_a1, run_a2: if result.returncode != 0: raise Exception(result.stderr)
\* (variant that also rejects a printed status "failure")
ChildFailed_status(rc, out) == rc # 0 \/ out = "valid_failure"
ChildFailed(rc, out) == rc # 0

\* run_a1, run_a2: subprocess.run(command, capture_output=True, text=True)
\* returns; run_task is blocked until it does
ChildExit(r, rc, out) ==
    /\ pc[r] = "handler" /\ Handler(r).kind = "child"
    /\ LET l == [loc[r] EXCEPT !.rc = rc, !.stdout = out]
       IN  IF ChildFailed(rc, out)
           THEN HandlerRaise(r, l, "stderr")
           ELSE HandlerReturn(r, l)
    /\ UNCHANGED fs

\* run_b8 returns its message
HandlerConst(r) ==
    /\ pc[r] = "handler" /\ Handler(r).kind = "const"
    /\ HandlerReturn(r, loc[r])
    /\ UNCHANGED fs

\* the handler writes its output with write_output_file and returns; an
\* OSError of open() is raised to run_task
WriteAndReturn(r, l) ==
    LET files == write_output_file(fs, Handler(r).out)
        target == WriteTarget(fs, os_path_join(DataRoot, [abs |-> FALSE, segs |-> Handler(r).out]))
    IN  IF target = NoNode
        THEN HandlerRaise(r, l, "write_error") /\ fs' = fs
        ELSE HandlerReturn(r, [l EXCEPT !.wrote = @ \cup {target}]) /\ fs' = files

\* run_a3..run_a6, run_a10, run_b5, run_b7, run_b9, run_b10: read the input
\* (ok: it exists and parses), raise on an error, else write the output;
\* run_a7..run_a9: read the input, then call query_llm
HandlerIO(r, ok) ==
    /\ pc[r] = "handler" /\ Handler(r).kind \in {"io", "io_llm"}
    /\ IF ~ok
       THEN HandlerRaise(r, loc[r], "input_error") /\ fs' = fs
       ELSE IF Handler(r).kind = "io_llm"
       THEN /\ pc' = [pc EXCEPT ![r] = "handler_llm"]
            /\ loc' = [loc EXCEPT ![r].handler_llm = @ + 1]
            /\ UNCHANGED <<running, last, fs>>
       ELSE WriteAndReturn(r, loc[r])

\* run_a7..run_a9: query_llm returns, the reply is written
HandlerLLMReturn(r) ==
    /\ pc[r] = "handler_llm"
    /\ WriteAndReturn(r, loc[r])

\* run_a7..run_a9: query_llm raises inside the handler, within the try of
\* run_task
HandlerLLMFail(r) ==
    /\ pc[r] = "handler_llm"
    /\ HandlerRaise(r, loc[r], "upstream")
    /\ UNCHANGED fs

\* --------------------------------------------------------------- /read
\* read_file has no blocking call other than the file access itself: once
\* the event loop starts it, it runs to its response
read_file(r, path) ==
    /\ pc[r] = "queued_read"
    /\ running = 0
    /\ LET file_path == os_path_join(DataRoot, path)
           node == Resolve(fs, file_path)
       IN  IF ~os_path_exists(fs, file_path)
           THEN Complete(r, "read", loc[r], 404, "File not found", NoNode)
           ELSE IF fs[node] = "text"
           THEN Complete(r, "read", loc[r], 200, "success", node)
           ELSE Complete(r, "read", loc[r], 500, fs[node], node)
    /\ UNCHANGED fs

\* ----------------------------------------------------------------- spec
Next ==
    \/ \E r \in Req, k \in {"queued_run", "queued_read"} : Submit(r, k)
    \/ \E r \in Req : run_task(r)
    \/ \E r \in Req : ClassifyFail(r)
    \/ \E r \in Req, content \in LLMReplies : ClassifyReturn(r, content)
    \/ \E r \in Req : Dispatch(r)
    \/ \E r \in Req, rc \in ReturnCodes, out \in ChildOutputs : ChildExit(r, rc, out)
    \/ \E r \in Req : HandlerConst(r)
    \/ \E r \in Req, ok \in BOOLEAN : HandlerIO(r, ok)
    \/ \E r \in Req : HandlerLLMReturn(r)
    \/ \E r \in Req : HandlerLLMFail(r)
    \/ \E r \in Req, path \in CallerPaths : read_file(r, path)

Spec == Init /\ [][Next]_vars

TypeOK ==
    /\ pc \in [Req -> {"idle", "queued_run", "queued_read", "classify", "parsed",
                      "handler", "handler_llm", "done"}]
    /\ running \in Req \cup {0}
    /\ last.status \in {0, 200, 400, 404, 500}

\* --------------------------------------------------------------- claims
RunDone == last.op = "run"
ReadDone == last.op = "read"

\* key is content without its surrounding whitespace, in lower case
IsTrimmedLowerOf(key, content) ==
    \E i \in 1..(Len(content) + 1), j \in 0..Len(content) :
        /\ Len(key) = j - i + 1
        /\ \A k \in 1..(i - 1) : content[k] \in Whitespace
        /\ \A k \in (j + 1)..Len(content) : content[k] \in Whitespace
        /\ \A k \in 1..Len(key) : key[k] = LowerChar(content[i + k - 1])
        /\ key # <<>> => key[1] \notin Whitespace /\ key[Len(key)] \notin Whitespace

\* C1: a /run request whose classifier returns a key outside TASK_MAP ends
\* with 400 and no handler call; a handler is called at most once and only
\* for a key of TASK_MAP, and its failure is answered with 500, never 400.
C1_UnknownKeyIsClientError ==
    /\ \A r \in Req : /\ loc[r].invoked <= 1
                      /\ loc[r].invoked = 1 => loc[r].task_key \in TaskKeys
    /\ RunDone =>
          /\ (last.t.returned /\ last.t.task_key \notin TaskKeys)
                => (last.status = 400 /\ last.t.invoked = 0)
          /\ last.t.invoked <= 1
          /\ last.t.invoked = 1 => (last.t.task_key \in TaskKeys /\ last.status # 400)
          /\ (last.t.invoked = 1 /\ last.t.errs # <<>>) => last.status = 500
          /\ last.status = 400 => last.t.task_key \notin TaskKeys

C1_Witness ==
    RunDone /\ last.t.returned /\ last.t.task_key = Unknown /\ last.status = 400

C5_KeyOrUnknown ==
    /\ \A r \in Req : loc[r].returned => loc[r].task_key \in TaskKeys \cup {Unknown}
    /\ (RunDone /\ last.t.returned) => last.t.task_key \in TaskKeys \cup {Unknown}

\* C5 as amended: the key returned by parse_task_description is the reply
\* of the LLM, trimmed and lowercased, whatever the reply is; it is a key
\* of TASK_MAP or "unknown" exactly when the trimmed, lowercased reply is
\* one, and a returned key that is not in TASK_MAP is answered with 400.
C5_KeyIsNormalisedReply ==
    /\ \A r \in Req :
          pc[r] = "parsed" =>
             /\ IsTrimmedLowerOf(loc[r].task_key, loc[r].reply)
             /\ (loc[r].task_key \in TaskKeys \cup {Unknown})
                   <=> (\E k \in TaskKeys \cup {Unknown} : IsTrimmedLowerOf(k, loc[r].reply))
    /\ (RunDone /\ last.t.returned /\ last.t.task_key \notin TaskKeys) => last.status = 400

C5_Witness ==
    \E r \in Req : /\ pc[r] = "parsed"
                   /\ loc[r].reply = <<" ", "A", "3">>
                   /\ loc[r].task_key = <<"a", "3">>

\* C6: no key of TASK_MAP fails because of how run_task calls its handler
\* (with no argument).
C6_ZeroArgumentHandlers ==
    (RunDone /\ last.t.task_key \in TaskKeys)
        => \A i \in 1..Len(last.t.errs) : last.t.errs[i] # "TypeError"

\* C7: every file opened by /read and every file written through
\* write_output_file lies under /data.
C7_ConfinedToDataRoot ==
    /\ (ReadDone /\ last.opened # NoNode) => UnderData(last.opened)
    /\ RunDone => \A n \in last.t.wrote : UnderData(n)

\* C8: /read answers 404 exactly when no file under /data is named by the
\* path, and 200 when the file is text.
C8_NotFoundIffAbsentUnderData ==
    ReadDone =>
        /\ last.status = 404 <=> ~(last.opened # NoNode /\ UnderData(last.opened))
        /\ last.status = 200 => fs[last.opened] = "text"

\* C9: the classification of a /run request makes exactly one LLM call; a
\* failure of that call ends the request with an error response, without a
\* retry, a handler call or a write; a reply is trimmed, lowercased and
\* used as the key.
C9_State ==
    /\ \A r \in Req :
          /\ loc[r].llm_calls <= 1
          /\ pc[r] \in {"classify", "parsed", "handler", "handler_llm"}
                => loc[r].llm_calls = 1
          /\ pc[r] = "parsed" => loc[r].task_key = Lower(Strip(loc[r].reply))
    /\ RunDone =>
          /\ last.t.llm_calls = 1
          /\ ~last.t.returned =>
                /\ last.status = 500
                /\ last.t.invoked = 0 /\ last.t.handler_llm = 0
                /\ last.t.wrote = {}

C9_Step ==
    \A r \in Req :
       pc[r] = "classify" =>
          /\ pc'[r] \in {"classify", "parsed", "done"}
          /\ pc'[r] = "parsed" => loc'[r].llm_calls = 1
          /\ pc'[r] = "done" => (fs' = fs /\ last'.status = 500 /\ ~last'.t.returned)

C9_SingleClassification == []C9_State /\ [][C9_Step]_vars

C9_Witness ==
    RunDone /\ ~last.t.returned /\ last.status = 500 /\ last.t.llm_calls = 1

\* C10: while a /run request is blocked in its LLM call or in its child
\* process, every other submitted request can be started.
Blocked(r) ==
    \/ pc[r] \in {"classify", "handler_llm"}
    \/ pc[r] = "handler" /\ Handler(r).kind = "child"

C10_OthersProgress ==
    \A r \in Req, q \in Req :
        (r # q /\ Blocked(r) /\ pc[q] \in {"queued_run", "queued_read"})
            => ENABLED (run_task(q) \/ \E path \in CallerPaths : read_file(q, path))

====
